---- MODULE Spec2Model ----
(***************************************************************************)
(* Surge Shield: the hybrid surge model (backend/ml/hybrid_model.py), the  *)
(* agent that stores its forecasts and raises alerts                       *)
(* (backend/agent/orchestrator.py), and the alert sink (backend/db.py).    *)
(*                                                                         *)
(* Numbers.  Every real-valued quantity of the program (admissions, AQI,   *)
(* surge percentage) is kept in fixed point, in TENTHS of its unit: the    *)
(* surge threshold 60.0 is 600, the AQI clamp 500.0 is 5000, and 59.9 is   *)
(* 599.  Products and quotients are rounded down to a tenth.               *)
(*                                                                         *)
(* Dates are day numbers.  weekday = d % 7, and a year has 365 days.       *)
(*                                                                         *)
(* Randomness.  np.random.normal(0, s) is a draw z * s with z taken from   *)
(* ZDraws.  The draws of a forecast step are chosen freely; the 4 * 365    *)
(* draws of one synthetic history are read from a stream that is fixed by  *)
(* a freely chosen seed.                                                   *)
(*                                                                         *)
(* The regressor.  A fitted GradientBoostingRegressor is opaque: gb is the *)
(* number of the training call that fitted it (0 = None), and predict may  *)
(* return any value of Predictions.                                        *)
(***************************************************************************)
EXTENDS Integers, Sequences, FiniteSets, TLC

VARIABLES
    today,            \* date.today()
    eventsDb,         \* the documents of the events collection, in find() order
    gb,               \* self._gb: 0 = None, n = fitted by training call n
    history,          \* self._history
    trained,          \* self._trained
    trainCalls,       \* number of training calls made so far
    pc,               \* "idle", "forecast" (inside the loop of
                      \* forecast_horizon), "returned", "raised" (an
                      \* exception left the call), "agent" and "agent_alert"
                      \* (inside the loop of run_surge_agent), "classify",
                      \* "classified"
    start_date,       \* arguments and locals of the forecast_horizon call
    horizon_days,
    events,
    current_date,
    out,
    baseline_window,  \* entries are [date, total]; date records where the
                      \* total comes from, the code keeps the totals only
    prediction,       \* the last call of predict(): its features and its value,
                      \* with the draw of _simulate_aqi that fed it
    result,           \* what the last completed forecast_horizon returned
    fp,               \* the point handed to _generate_alerts_for_forecast
    alerts,           \* the alert sink (alerts_coll)
    historyBy,        \* number of the training call that generated history
    forecasts,        \* the forecast store (forecasts_coll), in insertion order
    fc_points,        \* locals of run_surge_agent: the list it iterates,
    generated,        \* its counter,
    max_surge,        \* its running maximum,
    summary,          \* and the dict the last run returned
    runs,             \* number of agent runs started so far
    train_pc,         \* a second caller inside train(): "idle" or "fitting"
    train_id,         \* the number of that training call
    helper            \* a call of one internal helper on its own: its name,
                      \* its arguments and, once it has returned, its value

modelState == <<gb, history, trained, trainCalls, historyBy>>
callState  == <<start_date, horizon_days, events, current_date, out,
                baseline_window, prediction>>
alertState == <<fp, alerts>>
agentState == <<forecasts, fc_points, generated, max_surge, summary, runs>>
otherState == <<train_pc, train_id>>
vars == <<today, eventsDb, gb, history, trained, trainCalls, pc, start_date,
          horizon_days, events, current_date, out, baseline_window,
          prediction, result, fp, alerts, historyBy, forecasts, fc_points,
          generated, max_surge, summary, runs, train_pc, train_id, helper>>

----------------------------------------------------------------------------
(* Bounds of the model *)

Day0       == 400   \* date.today() in the initial state
MaxTicks   == 1     \* how many times midnight passes
MaxHorizon == 2     \* largest horizon_days a caller passes
MaxEvents  == 1     \* most documents in the events collection

(* Program constants *)

HistoryDays == 365  \* days of synthetic history
SeedDays    == 30   \* history points that seed the window
RecentDays  == 7    \* window entries in the moving average

None == [name |-> "none"]

----------------------------------------------------------------------------
(* Calendar and numeric helpers *)

Max(a, b) == IF a >= b THEN a ELSE b
Min(a, b) == IF a <= b THEN a ELSE b
Abs(a)    == IF a >= 0 THEN a ELSE -a

Weekday(d)   == d % 7
DayOfYear(d) == ((d - 1) % 365) + 1

\* 1000 * sin(2 pi dow / 7)
SinWeek(dow) == <<0, 782, 975, 434, -434, -975, -782>>[dow + 1]

\* 1000 * sin of an angle of a degrees, 0 <= a <= 180 (Bhaskara's formula)
SinHalf(a) == (4000 * a * (180 - a)) \div (40500 - a * (180 - a))

\* 1000 * sin(2 pi doy / 365)
SinYear(doy) ==
    LET a == ((360 * doy) \div 365) % 360
    IN  IF a <= 180 THEN SinHalf(a) ELSE -SinHalf(a - 180)

RECURSIVE SumSeq(_)
SumSeq(s) == IF s = <<>> THEN 0 ELSE Head(s) + SumSeq(Tail(s))

\* s[-n:]
LastN(s, n) ==
    IF Len(s) <= n THEN s ELSE SubSeq(s, Len(s) - n + 1, Len(s))

----------------------------------------------------------------------------
(* Inputs *)

ZDraws == <<-4, -3, -1, 0, 1, 3, 4>>

\* draw number k of day i of the stream fixed by seed
Z(seed, i, k) == ZDraws[((seed + k * i) % Len(ZDraws)) + 1]

Seeds == {0, 2}

\* Event documents as the events collection returns them: the date field is
\* a datetime (a day and an hour of that day).
EventPool ==
    { [name |-> "Diwali", date |-> [day |-> Day0, hour |-> 0],
       type |-> "festival", historical_avg_surge_pct |-> 600],
      [name |-> "Smog", date |-> [day |-> Day0 - 1, hour |-> 9],
       type |-> "pollution", historical_avg_surge_pct |-> 1200],
      [name |-> "Flu", date |-> [day |-> Day0 - 2, hour |-> 0],
       type |-> "epidemic", historical_avg_surge_pct |-> 0] }

EventLists == UNION { [1..n -> EventPool] : n \in 0..MaxEvents }

StartDates == {Day0, Day0 + 1}

\* what one forecast step may draw: <<z, p>>, z the draw of _simulate_aqi and
\* p the value predict() returns
StepInputs == { <<-4, -250>>, <<0, 299>>, <<4, 1300>> }

----------------------------------------------------------------------------
(* Internal helpers of HybridSurgeModel *)

\* _as_date: the calendar day of a datetime
AsDate(x) == x.day

\* _as_date raises: x is neither a datetime nor a date, and
\* datetime.fromisoformat(str(x)) rejects it.  A date that is a string is
\* the record [text |-> ...]; the strings of this model are not ISO dates.
AsDateRaises(x) == "text" \in DOMAIN x

\* ev.get("type", ""): an event document may come without a type
TypeOf(ev) == IF "type" \in DOMAIN ev THEN ev.type ELSE ""

\* some event of the list has a date _as_date raises on
AnyUnparseable(evs) == \E i \in 1..Len(evs) : AsDateRaises(evs[i].date)

\* _nearest_event: one pass over the list; a later event replaces the
\* current choice only when it is strictly nearer.
RECURSIVE NearestEventFrom(_, _, _, _, _, _)
NearestEventFrom(current, evs, future_only, i, nearest, best_delta) ==
    IF i > Len(evs) THEN nearest
    ELSE LET delta     == AsDate(evs[i].date) - current
             abs_delta == Abs(delta)
         IN  IF future_only /\ delta < 0
             THEN NearestEventFrom(current, evs, future_only, i + 1,
                                   nearest, best_delta)
             ELSE IF best_delta = -1 \/ abs_delta < best_delta
             THEN NearestEventFrom(current, evs, future_only, i + 1,
                                   evs[i], abs_delta)
             ELSE NearestEventFrom(current, evs, future_only, i + 1,
                                   nearest, best_delta)

\* variant: among the nearest candidates the last of the list is taken
NearestEventLast(current, evs, future_only) ==
    LET delta(i) == AsDate(evs[i].date) - current
        cands    == { i \in 1..Len(evs) : ~future_only \/ delta(i) >= 0 }
        best     == { i \in cands :
                        \A j \in cands : Abs(delta(i)) <= Abs(delta(j)) }
    IN  IF cands = {} THEN None
        ELSE evs[CHOOSE i \in best : \A j \in best : j <= i]

NearestEvent(current, evs, future_only) ==
    NearestEventFrom(current, evs, future_only, 1, None, -1)

\* variant: events do not move the AQI
AqiBumpNone(current, evs) == 0

\* variant: the largest bump any event of the list gives
AqiBumpOfAny(current, evs) ==
    LET bump(i) ==
            LET delta_days == Abs(AsDate(evs[i].date) - current)
                ev_type    == evs[i].type
            IN  IF delta_days <= 2
                THEN (IF ev_type = "festival" THEN 900
                      ELSE IF ev_type = "pollution" THEN 700 ELSE 0)
                ELSE IF delta_days <= 5
                THEN (IF ev_type = "festival" THEN 400
                      ELSE IF ev_type = "pollution" THEN 300 ELSE 0)
                ELSE 0
        bumps == { bump(i) : i \in 1..Len(evs) } \cup {0}
    IN  CHOOSE b \in bumps : \A c \in bumps : c <= b

\* the bump _simulate_aqi adds for the nearest event
AqiBump(current, evs) ==
    LET nearest_ev == NearestEvent(current, evs, FALSE)
    IN  IF nearest_ev = None THEN 0
        ELSE LET delta_days == Abs(AsDate(nearest_ev.date) - current)
                 ev_type    == TypeOf(nearest_ev)
             IN  IF delta_days <= 2
                 THEN (IF ev_type = "festival" THEN 900
                       ELSE IF ev_type = "pollution" THEN 700 ELSE 0)
                 ELSE IF delta_days <= 5
                 THEN (IF ev_type = "festival" THEN 400
                       ELSE IF ev_type = "pollution" THEN 300 ELSE 0)
                 ELSE 0

ClampAqi(aqi) == Max(500, Min(5000, aqi))

\* _simulate_aqi, z the draw of np.random.normal(0.0, 10.0)
SimulateAqi(current, evs, z) ==
    LET base  == 1200 + (250 * SinYear(DayOfYear(current))) \div 1000
        noise == 100 * z
    IN  ClampAqi(base + noise + AqiBump(current, evs))

\* d.month
Month(d) ==
    LET doy  == DayOfYear(d)
        ends == <<31, 59, 90, 120, 151, 181, 212, 243, 273, 304, 334, 365>>
    IN  CHOOSE m \in 1..12 :
            /\ doy <= ends[m]
            /\ \A k \in 1..(m - 1) : doy > ends[k]

\* the first event of the list whose date is exactly d
RECURSIVE EventToday(_, _, _)
EventToday(d, evs, i) ==
    IF i > Len(evs) THEN None
    ELSE IF AsDate(evs[i].date) = d THEN evs[i]
    ELSE EventToday(d, evs, i + 1)

\* variant: the event of the day is the nearest event within one day
BuildFeaturesNearby(d, aqi, evs) ==
    LET near             == NearestEvent(d, evs, FALSE)
        ev_today         == IF near # None /\ Abs(AsDate(near.date) - d) <= 1
                            THEN near ELSE None
        ev_type_today    == IF ev_today # None THEN ev_today.type ELSE ""
        hist_surge_today == IF ev_today # None
                            THEN ev_today.historical_avg_surge_pct ELSE 0
        nearest_future   == NearestEvent(d, evs, TRUE)
        days_to_next     == IF nearest_future # None
                            THEN Max(0, Min(30,
                                     AsDate(nearest_future.date) - d))
                            ELSE 30
    IN  << Weekday(d), Month(d),
           IF ev_type_today = "festival" THEN 1 ELSE 0,
           IF ev_type_today = "pollution" THEN 1 ELSE 0,
           days_to_next, aqi, hist_surge_today >>

\* _build_features
BuildFeatures(d, aqi, evs) ==
    LET ev_today         == EventToday(d, evs, 1)
        ev_type_today    == IF ev_today # None THEN ev_today.type ELSE ""
        hist_surge_today == IF ev_today # None
                            THEN ev_today.historical_avg_surge_pct ELSE 0
        nearest_future   == NearestEvent(d, evs, TRUE)
        days_to_next     == IF nearest_future # None
                            THEN Max(0, Min(30,
                                     AsDate(nearest_future.date) - d))
                            ELSE 30
    IN  << Weekday(d), Month(d),
           IF ev_type_today = "festival" THEN 1 ELSE 0,
           IF ev_type_today = "pollution" THEN 1 ELSE 0,
           days_to_next, aqi, hist_surge_today >>

\* _build_features raises: ev_today["type"] on an event of the day that has
\* no type
BuildFeaturesRaises(d, evs) ==
    LET ev_today == EventToday(d, evs, 1)
    IN  ev_today # None /\ "type" \notin DOMAIN ev_today

\* variant: the mean is taken over the whole window
ComputeBaselineFromWholeWindow(current, window) ==
    IF window = <<>> THEN 1300
    ELSE LET base   == SumSeq(window) \div Len(window)
             weekly == (60 * SinWeek(Weekday(current))) \div 1000
         IN  Max(600, base + weekly)

\* _compute_baseline_from_window, over the totals of the window
ComputeBaselineFromWindow(current, window) ==
    IF window = <<>> THEN 1300
    ELSE LET recent == LastN(window, RecentDays)
             base   == SumSeq(recent) \div Len(recent)
             weekly == (60 * SinWeek(Weekday(current))) \div 1000
         IN  Max(600, base + weekly)

\* variant: the surge is taken as a fraction, not as a percentage
TotalAdmissionsFraction(baseline, surge_pct) ==
    (baseline * (10 + surge_pct)) \div 10

\* baseline * (1.0 + surge_pct / 100.0)
TotalAdmissions(baseline, surge_pct) ==
    (baseline * (1000 + surge_pct)) \div 1000

ForecastPoint(d, baseline, total, surge_pct, aqi) ==
    [date |-> d, baseline_admissions |-> baseline,
     total_admissions |-> total, surge_pct |-> surge_pct, aqi |-> aqi]

----------------------------------------------------------------------------
(* _generate_synthetic_history *)

\* events_by_date[d]: the dict comprehension keeps, for each date, the last
\* event of the list with that date
RECURSIVE EventsByDate(_, _, _)
EventsByDate(d, evs, i) ==
    IF i = 0 THEN None
    ELSE IF AsDate(evs[i].date) = d THEN evs[i]
    ELSE EventsByDate(d, evs, i - 1)

\* variant: the limits of the inference pipeline
ClampSyntheticSurgeWide(surge_pct) == Max(-200, Min(1200, surge_pct))

\* max(-10.0, min(120.0, surge_pct))
ClampSyntheticSurge(surge_pct) == Max(-100, Min(1200, surge_pct))

\* variant: the aqi adds nothing to the surge
AqiTierSurgeNone(aqi) == 0

\* the tier added for the day's aqi
AqiTierSurge(aqi) ==
    IF aqi >= 3000 THEN 350
    ELSE IF aqi >= 2000 THEN 180
    ELSE IF aqi >= 1500 THEN 80 ELSE 0

\* day number i (from 0) of a history starting at start
SyntheticPoint(start, i, evs, seed) ==
    LET d        == start + i
        doy      == DayOfYear(d)
        baseline == 1300 + (150 * SinYear(doy)) \div 1000
                         + (100 * SinWeek(Weekday(d))) \div 1000
                         + 50 * Z(seed, i, 1)
        aqi_base == 1100 + (300 * SinYear(doy)) \div 1000
        aqi0     == aqi_base + 150 * Z(seed, i, 2)
        ev       == EventsByDate(d, evs, Len(evs))
        hist     == IF ev = None THEN 0 ELSE ev.historical_avg_surge_pct
        ev_noise == 50 * Z(seed, i, 3)
        aqi      == IF ev = None THEN aqi0
                    ELSE IF TypeOf(ev) = "festival" THEN aqi0 + 800
                    ELSE IF TypeOf(ev) = "pollution" THEN aqi0 + 600
                    ELSE aqi0
        ev_surge == IF ev = None THEN 0
                    ELSE IF TypeOf(ev) = "festival" THEN hist + ev_noise
                    ELSE IF TypeOf(ev) = "pollution"
                         THEN (hist * 8) \div 10 + ev_noise
                    ELSE hist \div 2 + ev_noise
        surge    == ClampSyntheticSurge(ev_surge + AqiTierSurge(aqi)
                                        + 30 * Z(seed, i, 4))
    IN  ForecastPoint(d, baseline, TotalAdmissions(baseline, surge),
                      surge, aqi)

GenerateSyntheticHistory(start, days, evs, seed) ==
    [i \in 1..days |-> SyntheticPoint(start, i - 1, evs, seed)]

----------------------------------------------------------------------------
(* The model object *)

NoPrediction == [features |-> <<>>, value |-> 0, draw |-> 0]
NoPoint      == ForecastPoint(0, 0, 0, 0, 0)
NoSummary    == [status |-> "none"]
NoHelper     == [fn |-> "none"]

\* the store, the agent and the second caller before anything has run
Quiet ==
    /\ historyBy = 0
    /\ forecasts = <<>>
    /\ fc_points = <<>>
    /\ generated = 0
    /\ max_surge = 0
    /\ summary = NoSummary
    /\ runs = 0
    /\ train_pc = "idle"
    /\ train_id = 0
    /\ helper = NoHelper

Init ==
    /\ today = Day0
    /\ eventsDb = <<>>
    /\ gb = 0
    /\ history = <<>>
    /\ trained = FALSE
    /\ trainCalls = 0
    /\ pc = "idle"
    /\ start_date = 0
    /\ horizon_days = 0
    /\ events = <<>>
    /\ current_date = 0
    /\ out = <<>>
    /\ baseline_window = <<>>
    /\ prediction = NoPrediction
    /\ result = <<>>
    /\ fp = NoPoint
    /\ alerts = <<>>
    /\ Quiet

\* first day of the history train() generates
TrainStartDate(now) == now - HistoryDays

\* variant: train() caches fewer points than the window needs
TrainHistoryShort(now, evs, seed) ==
    GenerateSyntheticHistory(now - (SeedDays - 1), SeedDays - 1, evs, seed)

\* variant: the new points are appended to the cached history
TrainHistoryKeepsOld(now, evs, seed) ==
    history \o GenerateSyntheticHistory(TrainStartDate(now), HistoryDays,
                                        evs, seed)

\* the history train() generates and stores
TrainHistory(now, evs, seed) ==
    GenerateSyntheticHistory(TrainStartDate(now), HistoryDays, evs, seed)

\* train() raises while it builds X and y: _build_features raises on a day
\* of the history
TrainFeaturesRaise(now, evs) ==
    \E i \in 0..(HistoryDays - 1) :
        BuildFeaturesRaises(TrainStartDate(now) + i, evs)

\* train(evs) raises
TrainFails(now, evs) ==
    IF AnyUnparseable(evs) THEN TRUE ELSE TrainFeaturesRaise(now, evs)

\* forecast_horizon raises in the pass of the loop for day d
StepFails(d, evs) ==
    IF AnyUnparseable(evs) THEN TRUE ELSE BuildFeaturesRaises(d, evs)

\* the history the fallback of forecast_horizon generates
FallbackHistory(s, evs, seed) ==
    GenerateSyntheticHistory(s - HistoryDays, HistoryDays, evs, seed)

\* variant: the totals the earlier runs have stored follow the history
SeedWindowFedByForecasts(hist) ==
    LET fed == hist \o [i \in 1..Len(forecasts) |->
                           [date             |-> forecasts[i].date.day,
                            total_admissions |->
                                forecasts[i].total_admissions]]
        n     == Min(SeedDays, Len(fed))
        first == Len(fed) - n
    IN  [i \in 1..n |-> [date  |-> fed[first + i].date,
                         total |-> fed[first + i].total_admissions]]

\* the window forecast_horizon starts from
SeedWindow(hist) ==
    LET n     == Min(SeedDays, Len(hist))
        first == Len(hist) - n
    IN  [i \in 1..n |-> [date  |-> hist[first + i].date,
                         total |-> hist[first + i].total_admissions]]

WindowTotals(window) == [i \in 1..Len(window) |-> window[i].total]

\* variant: the window keeps its most recent SeedDays entries
AppendToWindowBounded(window, d, total) ==
    LastN(Append(window, [date |-> d, total |-> total]), SeedDays)

\* baseline_window.append(total)
AppendToWindow(window, d, total) ==
    Append(window, [date |-> d, total |-> total])

\* variant: only the lower limit is applied
ClampSurgeLowerOnly(surge_pct) == Max(-200, surge_pct)

\* max(-20.0, min(120.0, surge_pct))
ClampSurge(surge_pct) == Max(-200, Min(1200, surge_pct))

\* variant: the date is not advanced
NextDateSame(d) == d

\* current_date += timedelta(days=1)
NextDate(d) == d + 1

\* midnight passes
Tick ==
    /\ pc = "idle"
    /\ today < Day0 + MaxTicks
    /\ today' = today + 1
    /\ UNCHANGED <<eventsDb, modelState, pc, callState, result, alertState,
                   agentState, otherState, helper>>

\* a document is inserted into the events collection
EventInserted(ev) ==
    /\ pc = "idle"
    /\ Len(eventsDb) < MaxEvents
    /\ eventsDb' = Append(eventsDb, ev)
    /\ UNCHANGED <<today, modelState, pc, callState, result, alertState,
                   agentState, otherState, helper>>

\* train(evs), from its first line to its last, by the only caller
Train(evs, seed) ==
    /\ pc = "idle"
    /\ ~TrainFails(today, evs)
    /\ history' = TrainHistory(today, evs, seed)
    /\ gb' = trainCalls + 1
    /\ trained' = TRUE
    /\ trainCalls' = trainCalls + 1
    /\ historyBy' = trainCalls + 1
    /\ UNCHANGED <<today, eventsDb, pc, callState, result, alertState,
                   agentState, otherState, helper>>

\* startup_event: hybrid_model.train(list(events_coll().find({}))); it runs
\* once, when the process starts, before any other call reaches the model
TrainCall(seed) ==
    /\ trainCalls = 0
    /\ Train(eventsDb, seed)

MaxTrains == 2   \* how many training calls are made

\* a later call of train()
TrainAgain(evs, seed) ==
    /\ trainCalls < MaxTrains
    /\ Train(evs, seed)

\* variant: the regressor and the flag are assigned together with the history
TrainBeginTogether(evs, seed) ==
    /\ train_pc = "idle"
    /\ trainCalls < MaxTrains
    /\ ~AnyUnparseable(evs)
    /\ train_id' = trainCalls + 1
    /\ trainCalls' = trainCalls + 1
    /\ history' = TrainHistory(today, evs, seed)
    /\ historyBy' = trainCalls + 1
    /\ gb' = trainCalls + 1
    /\ trained' = TRUE
    /\ train_pc' = "fitting"
    /\ UNCHANGED <<today, eventsDb, pc, callState, result, alertState,
                   agentState, helper>>

\* train(evs) by a second caller, up to self._history = history
TrainBegin(evs, seed) ==
    /\ train_pc = "idle"
    /\ trainCalls < MaxTrains
    /\ ~AnyUnparseable(evs)
    /\ train_id' = trainCalls + 1
    /\ trainCalls' = trainCalls + 1
    /\ history' = TrainHistory(today, evs, seed)
    /\ historyBy' = trainCalls + 1
    /\ train_pc' = "fitting"
    /\ UNCHANGED <<today, eventsDb, gb, trained, pc, callState, result,
                   alertState, agentState, helper>>

\* the rest of that call: the fit, then self._gb = gb; self._trained = True
TrainFinish ==
    /\ train_pc = "fitting"
    /\ gb' = train_id
    /\ trained' = TRUE
    /\ train_pc' = "idle"
    /\ train_id' = 0
    /\ UNCHANGED <<today, eventsDb, history, trainCalls, historyBy, pc,
                   callState, result, alertState, agentState, helper>>

\* variant: forecast_horizon never trains
NeedsTrainingNever(t, g) == FALSE

\* if not self._trained or self._gb is None
NeedsTraining(t, g) == ~t \/ g = 0

\* forecast_horizon up to the head of its loop: train() when there is no
\* trained regressor, the fallback when the history is short, the window
ForecastCall(s, n, evs, seed) ==
    /\ pc = "idle"
    /\ ~(NeedsTraining(trained, gb) /\ TrainFails(today, evs))
    /\ LET lazy == NeedsTraining(trained, gb)
       IN  /\ \E h \in {IF lazy THEN TrainHistory(today, evs, seed)
                                ELSE history} :
                 /\ history' = IF Len(h) < SeedDays
                               THEN FallbackHistory(s, evs, seed) ELSE h
                 /\ historyBy' = IF Len(h) < SeedDays THEN 0
                                 ELSE IF lazy THEN trainCalls + 1
                                 ELSE historyBy
           /\ gb' = IF lazy THEN trainCalls + 1 ELSE gb
           /\ trained' = (lazy \/ trained)
           /\ trainCalls' = IF lazy THEN trainCalls + 1 ELSE trainCalls
    /\ baseline_window' = SeedWindow(history')
    /\ start_date' = s
    /\ horizon_days' = n
    /\ events' = evs
    /\ current_date' = s
    /\ out' = <<>>
    /\ prediction' = NoPrediction
    /\ pc' = "forecast"
    /\ UNCHANGED <<today, eventsDb, result, alertState,
                   agentState, otherState, helper>>

\* what a call of train(evs) that raises has assigned by then: nothing when
\* a date does not parse (_generate_synthetic_history raises in its first
\* statement), the new history when _build_features raises (self._history
\* is assigned before X and y are built, self._gb and self._trained after
\* the fit)
TrainFailure(evs, seed) ==
    /\ TrainFails(today, evs)
    /\ IF AnyUnparseable(evs)
       THEN UNCHANGED <<history, historyBy, trainCalls>>
       ELSE /\ trainCalls < MaxTrains
            /\ history' = TrainHistory(today, evs, seed)
            /\ historyBy' = trainCalls + 1
            /\ trainCalls' = trainCalls + 1
    /\ UNCHANGED <<gb, trained>>

\* a call of train(evs) that raises; the exception reaches the caller
TrainRaises(evs, seed) ==
    /\ pc = "idle"
    /\ TrainFailure(evs, seed)
    /\ pc' = "raised"
    /\ UNCHANGED <<today, eventsDb, callState, result, alertState,
                   agentState, otherState, helper>>

\* forecast_horizon on a model that needs training, with an event list
\* train() raises on: the exception leaves the call
ForecastCallRaises(s, n, evs, seed) ==
    /\ pc = "idle"
    /\ NeedsTraining(trained, gb)
    /\ TrainFailure(evs, seed)
    /\ start_date' = s
    /\ horizon_days' = n
    /\ events' = evs
    /\ pc' = "raised"
    /\ UNCHANGED <<today, eventsDb, current_date, out,
                   baseline_window, prediction, result, alertState,
                   agentState, otherState, helper>>

\* variant: each point is written to the store as soon as it is computed
ForecastStepStreams(z, p) ==
    /\ pc = "forecast"
    /\ Len(out) < horizon_days
    /\ ~StepFails(current_date, events)
    /\ LET baseline  == ComputeBaselineFromWindow(current_date,
                                       WindowTotals(baseline_window))
           aqi       == SimulateAqi(current_date, events, z)
           feats     == BuildFeatures(current_date, aqi, events)
           surge_pct == ClampSurge(p)
           total     == TotalAdmissions(baseline, surge_pct)
       IN  /\ prediction' = [features |-> feats, value |-> p, draw |-> z]
           /\ out' = Append(out, ForecastPoint(current_date, baseline, total,
                                               surge_pct, aqi))
           /\ baseline_window' = AppendToWindow(baseline_window,
                                                current_date, total)
           /\ forecasts' = Append(forecasts,
                  [date                |-> [day |-> current_date, hour |-> 0],
                   baseline_admissions |-> baseline,
                   total_admissions    |-> total,
                   surge_pct           |-> surge_pct,
                   aqi                 |-> aqi])
    /\ current_date' = NextDate(current_date)
    /\ UNCHANGED <<today, eventsDb, modelState, pc, start_date, horizon_days,
                   events, result, alertState, fc_points, generated,
                   max_surge, summary, runs, otherState, helper>>

\* one pass of the loop of forecast_horizon; z is the draw of _simulate_aqi
\* and p the value predict() returns
ForecastStep(z, p) ==
    /\ pc = "forecast"
    /\ Len(out) < horizon_days
    /\ ~StepFails(current_date, events)
    /\ LET baseline  == ComputeBaselineFromWindow(current_date,
                                       WindowTotals(baseline_window))
           aqi       == SimulateAqi(current_date, events, z)
           feats     == BuildFeatures(current_date, aqi, events)
           surge_pct == ClampSurge(p)
           total     == TotalAdmissions(baseline, surge_pct)
       IN  /\ prediction' = [features |-> feats, value |-> p, draw |-> z]
           /\ out' = Append(out, ForecastPoint(current_date, baseline, total,
                                               surge_pct, aqi))
           /\ baseline_window' = AppendToWindow(baseline_window,
                                                current_date, total)
    /\ current_date' = NextDate(current_date)
    /\ UNCHANGED <<today, eventsDb, modelState, pc, start_date, horizon_days,
                   events, result, alertState,
                   agentState, otherState, helper>>

\* a pass of the loop that raises: _simulate_aqi raises in _nearest_event
\* on a date that does not parse, or _build_features on an event of the day
\* without a type; the exception leaves the call
ForecastStepRaises ==
    /\ pc = "forecast"
    /\ Len(out) < horizon_days
    /\ StepFails(current_date, events)
    /\ pc' = "raised"
    /\ UNCHANGED <<today, eventsDb, modelState, callState, result,
                   alertState, agentState, otherState, helper>>

\* return out
ForecastReturn ==
    /\ pc = "forecast"
    /\ Len(out) >= horizon_days
    /\ result' = out
    /\ pc' = "returned"
    /\ UNCHANGED <<today, eventsDb, modelState, callState, alertState,
                   agentState, otherState, helper>>

\* the caller drops the returned list, or has caught the exception; the
\* locals of the call are gone
CallerDone ==
    /\ pc \in {"returned", "raised"}
    /\ pc' = "idle"
    /\ result' = <<>>
    /\ start_date' = 0
    /\ horizon_days' = 0
    /\ events' = <<>>
    /\ current_date' = 0
    /\ out' = <<>>
    /\ baseline_window' = <<>>
    /\ prediction' = NoPrediction
    /\ UNCHANGED <<today, eventsDb, modelState, alertState, agentState,
                   otherState, helper>>

----------------------------------------------------------------------------
(* The alerting step of the agent: _generate_alerts_for_forecast *)

\* the name of the first event of the list within one day of d, "" if none
RECURSIVE EventLabel(_, _, _)
EventLabel(d, evs, i) ==
    IF i > Len(evs) THEN ""
    ELSE IF Abs(AsDate(evs[i].date) - d) <= 1 THEN evs[i].name
    ELSE EventLabel(d, evs, i + 1)

\* variant: the nearest event of the list, when it is within one day
EventLabelNearest(point, evs) ==
    LET nearest_ev == NearestEvent(point.date, evs, FALSE)
    IN  IF nearest_ev # None /\ Abs(AsDate(nearest_ev.date) - point.date) <= 1
        THEN nearest_ev.name ELSE ""

\* event_label after the loop over the events
EventLabelFor(point, evs) == EventLabel(point.date, evs, 1)

\* variant: the surge thresholds are exclusive
AlertLevelExclusive(surge, aqi) ==
    IF surge > 600 \/ aqi >= 3500 THEN "critical"
    ELSE IF surge > 300 \/ aqi >= 2000 THEN "warning"
    ELSE "none"

\* the level chosen for a point, "none" when level stays None
AlertLevel(surge, aqi) ==
    IF surge >= 600 \/ aqi >= 3500 THEN "critical"
    ELSE IF surge >= 300 \/ aqi >= 2000 THEN "warning"
    ELSE "none"

\* f"{aqi:.0f}": to the nearest integer, a half to the even one
FormatAqi(aqi) ==
    LET q == aqi \div 10
        r == aqi % 10
    IN  IF r > 5 \/ (r = 5 /\ q % 2 = 1) THEN q + 1 ELSE q

\* the message: its wording and the values formatted into it
AlertMessage(level, point, event_label) ==
    [ wording |-> IF level = "critical"
                  THEN (IF event_label # "" THEN "Critical surge risk near event"
                        ELSE "Critical surge risk detected on")
                  ELSE (IF event_label # "" THEN "Moderate surge risk around event"
                        ELSE "Moderate surge risk on"),
      surge   |-> point.surge_pct,
      event   |-> event_label,
      date    |-> point.date,
      aqi     |-> FormatAqi(point.aqi) ]

\* the documents one call hands to insert_alert: none or one
AlertsFor(point, evs, now) ==
    LET level == AlertLevel(point.surge_pct, point.aqi)
        label == EventLabelFor(point, evs)
    IN  IF level = "none" THEN <<>>
        ELSE << [ created_at |-> now,
                  level      |-> level,
                  message    |-> AlertMessage(level, point, label),
                  tags       |-> IF level = "critical"
                                 THEN <<"forecast", "high-surge">>
                                 ELSE <<"forecast", "surge-warning">> ] >>

\* variant: a document whose message is already in the sink is dropped
InsertAlertOnce(sink, docs) ==
    IF \E i \in 1..Len(sink), j \in 1..Len(docs) :
           sink[i].message = docs[j].message
    THEN sink ELSE sink \o docs

\* insert_alert, for the documents of one call: insert_one, unconditionally
InsertAlert(sink, docs) == sink \o docs

\* _generate_alerts_for_forecast(fp, events)
GenerateAlertsForForecast ==
    /\ pc = "classify"
    /\ alerts' = InsertAlert(alerts, AlertsFor(fp, events, today))
    /\ pc' = "classified"
    /\ UNCHANGED <<today, eventsDb, modelState, callState, result, fp,
                   agentState, otherState, helper>>

----------------------------------------------------------------------------
(* The agent: run_surge_agent and _upsert_forecast *)

MaxRuns == 2   \* how many times the agent runs

\* _as_datetime(d): midnight of the day
AsDatetime(d) == [day |-> d, hour |-> 0]

\* the document _upsert_forecast sets
ForecastDoc(point) ==
    [date                |-> AsDatetime(point.date),
     baseline_admissions |-> point.baseline_admissions,
     total_admissions    |-> point.total_admissions,
     surge_pct           |-> point.surge_pct,
     aqi                 |-> point.aqi]

\* position of the first document of the store with that date, 0 if none
RECURSIVE FirstWithDate(_, _, _)
FirstWithDate(store, dt, i) ==
    IF i > Len(store) THEN 0
    ELSE IF store[i].date = dt THEN i
    ELSE FirstWithDate(store, dt, i + 1)

\* variant: the document is inserted whatever the store holds
UpsertForecastInsert(store, point) == Append(store, ForecastDoc(point))

\* update_one({"date": dt}, {"$set": doc}, upsert=True)
UpsertForecast(store, point) ==
    LET doc == ForecastDoc(point)
        i   == FirstWithDate(store, doc.date, 1)
    IN  IF i = 0 THEN Append(store, doc) ELSE [store EXCEPT ![i] = doc]

\* variant: the running maximum is reported as it is
SummaryMaxSurgeRaw(m) == m

\* max_surge if max_surge > -999.0 else 0.0
SummaryMaxSurge(m) == IF m > -9990 THEN m ELSE 0

\* run_surge_agent(n) up to the head of the loop of forecast_horizon:
\* today = date.today(), evs = the events collection, forecast_horizon
AgentRun(n, seed) ==
    /\ runs < MaxRuns
    /\ ForecastCall(today, n, eventsDb, seed)

\* fc_points = the returned list; generated = 0; max_surge = -999.0
AgentLoop ==
    /\ pc = "returned"
    /\ fc_points' = result
    /\ generated' = 0
    /\ max_surge' = -9990
    /\ pc' = "agent"
    /\ result' = <<>>
    /\ start_date' = 0
    /\ current_date' = 0
    /\ out' = <<>>
    /\ baseline_window' = <<>>
    /\ UNCHANGED <<today, eventsDb, modelState, horizon_days, events,
                   prediction, alertState, forecasts, summary, runs,
                   otherState, helper>>

\* the first half of one pass of the loop: _upsert_forecast(fp),
\* generated += 1, max_surge = max(max_surge, fp.surge_pct)
AgentUpsert ==
    /\ pc = "agent"
    /\ generated < Len(fc_points)
    /\ fp' = fc_points[generated + 1]
    /\ forecasts' = UpsertForecast(forecasts, fp')
    /\ generated' = generated + 1
    /\ max_surge' = Max(max_surge, fp'.surge_pct)
    /\ pc' = "agent_alert"
    /\ UNCHANGED <<today, eventsDb, modelState, callState, result, alerts,
                   fc_points, summary, runs, otherState, helper>>

\* the second half: _generate_alerts_for_forecast(fp, evs)
AgentAlert ==
    /\ pc = "agent_alert"
    /\ alerts' = InsertAlert(alerts, AlertsFor(fp, events, today))
    /\ pc' = "agent"
    /\ UNCHANGED <<today, eventsDb, modelState, callState, result, fp,
                   agentState, otherState, helper>>

\* the summary run_surge_agent returns
AgentReturn ==
    /\ pc = "agent"
    /\ generated >= Len(fc_points)
    /\ summary' = [horizon_days        |-> horizon_days,
                   generated_forecasts |-> generated,
                   max_surge_pct       |-> SummaryMaxSurge(max_surge)]
    /\ runs' = runs + 1
    /\ pc' = "idle"
    /\ fc_points' = <<>>
    /\ generated' = 0
    /\ max_surge' = 0
    /\ fp' = NoPoint
    /\ horizon_days' = 0
    /\ events' = <<>>
    /\ prediction' = NoPrediction
    /\ UNCHANGED <<today, eventsDb, modelState, start_date, current_date, out,
                   baseline_window, result, alerts, forecasts, otherState,
                   helper>>

\* forecast_horizon has raised inside run_surge_agent, which catches
\* nothing: the exception leaves the run, before its loop and its summary
AgentRaises ==
    /\ pc = "raised"
    /\ CallerDone

Next ==
    \/ Tick
    \/ \E ev \in EventPool : EventInserted(ev)
    \/ \E seed \in Seeds : TrainCall(seed)
    \/ \E s \in StartDates, n \in 0..MaxHorizon,
          seed \in (IF NeedsTraining(trained, gb) THEN Seeds ELSE {0}) :
            ForecastCall(s, n, eventsDb, seed)
    \/ \E in \in StepInputs : ForecastStep(in[1], in[2])
    \/ ForecastReturn
    \/ CallerDone

Spec == Init /\ [][Next]_vars

\* The classifier on its own: any point the pipeline may produce, with any
\* event list.
MaxLabelEvents == 2   \* longest event list handed to the classifier

AlertEventLists == UNION { [1..n -> EventPool] : n \in 0..MaxLabelEvents }
AlertSurges == {-200, 0, 299, 300, 599, 600, 601, 1200}
AlertAqis   == {500, 1990, 1999, 2000, 3490, 3495, 3499, 3500, 5000}

InitAlert ==
    /\ today = Day0
    /\ eventsDb = <<>>
    /\ gb = 0
    /\ history = <<>>
    /\ trained = FALSE
    /\ trainCalls = 0
    /\ pc = "classify"
    /\ start_date = 0
    /\ horizon_days = 0
    /\ events \in AlertEventLists
    /\ current_date = 0
    /\ out = <<>>
    /\ baseline_window = <<>>
    /\ prediction = NoPrediction
    /\ result = <<>>
    /\ \E d \in StartDates, surge \in AlertSurges, aqi \in AlertAqis :
           fp = ForecastPoint(d, 1300, TotalAdmissions(1300, surge), surge, aqi)
    /\ alerts = <<>>
    /\ Quiet

NextAlert == GenerateAlertsForForecast

SpecAlert == InitAlert /\ [][NextAlert]_vars

Festival == CHOOSE ev \in EventPool : ev.type = "festival"
AgentEventLists == { <<>>, <<Festival>> }

\* forecast_horizon called with arguments of any kind: a negative horizon,
\* an event whose date is a string that is no date.
BadEvent == [name |-> "Broken", date |-> [text |-> "soon"],
             type |-> "festival", historical_avg_surge_pct |-> 600]
\* an event of yesterday that came without a type
Untyped == [name |-> "Camp", date |-> [day |-> Day0 - 1, hour |-> 0],
            historical_avg_surge_pct |-> 500]
AnyEventLists == { <<>>, <<Festival>>, <<BadEvent>>, <<Festival, BadEvent>>,
                   <<Untyped>> }
AnyHorizons   == (-1)..MaxHorizon

NextAny ==
    \/ TrainCall(0)
    \/ \E s \in StartDates, n \in AnyHorizons, evs \in AnyEventLists :
           \/ \E seed \in (IF NeedsTraining(trained, gb) THEN Seeds ELSE {0}) :
                  ForecastCall(s, n, evs, seed)
           \/ ForecastCallRaises(s, n, evs, 0)
    \/ \E evs \in AnyEventLists : TrainRaises(evs, 0)
    \/ \E in \in StepInputs : ForecastStep(in[1], in[2])
    \/ ForecastStepRaises
    \/ ForecastReturn
    \/ CallerDone

SpecAny == Init /\ [][NextAny]_vars

\* One caller that trains again now and then, with the events collection of
\* the moment or with the festival.
NextRetrain ==
    \/ Tick
    \/ \E evs \in AgentEventLists, seed \in Seeds : TrainAgain(evs, seed)
    \/ \E n \in 0..MaxHorizon : ForecastCall(today, n, eventsDb, 0)
    \/ \E in \in StepInputs : ForecastStep(in[1], in[2])
    \/ ForecastReturn
    \/ CallerDone

SpecRetrain == Init /\ [][NextRetrain]_vars

\* Two callers without mutual exclusion: one forecasts, the other is inside
\* train().
NextRace ==
    \/ TrainCall(0)
    \/ \E seed \in Seeds : TrainBegin(eventsDb, seed)
    \/ TrainFinish
    \/ \E n \in 0..MaxHorizon : ForecastCall(today, n, eventsDb, 0)
    \/ \E in \in StepInputs : ForecastStep(in[1], in[2])
    \/ ForecastReturn
    \/ CallerDone

SpecRace == Init /\ [][NextRace]_vars

\* The agent on a fresh process, run several times on one day: the events
\* collection is empty, or holds the festival of Day0, or an event of
\* tomorrow that came without a type.
AgentStepInputs == { <<-3, 299>>, <<4, 1300>> }

UntypedAhead == [name |-> "Drive", date |-> [day |-> Day0 + 1, hour |-> 0],
                 historical_avg_surge_pct |-> 500]

InitAgent ==
    /\ today = Day0
    /\ eventsDb \in AgentEventLists \cup { <<UntypedAhead>> }
    /\ gb = 0
    /\ history = <<>>
    /\ trained = FALSE
    /\ trainCalls = 0
    /\ pc = "idle"
    /\ start_date = 0
    /\ horizon_days = 0
    /\ events = <<>>
    /\ current_date = 0
    /\ out = <<>>
    /\ baseline_window = <<>>
    /\ prediction = NoPrediction
    /\ result = <<>>
    /\ fp = NoPoint
    /\ alerts = <<>>
    /\ Quiet

NextAgent ==
    \/ \E n \in 0..MaxHorizon : AgentRun(n, 0)
    \/ \E in \in AgentStepInputs : ForecastStep(in[1], in[2])
    \/ ForecastStepRaises
    \/ ForecastReturn
    \/ AgentRaises
    \/ AgentLoop
    \/ AgentUpsert
    \/ AgentAlert
    \/ AgentReturn

SpecAgent == InitAgent /\ [][NextAgent]_vars

----------------------------------------------------------------------------
(* The internal helpers of HybridSurgeModel, each called on its own *)

MaxHelperEvents == 2   \* longest event list handed to a helper

\* a second event on the day of "Smog"
Fair == [name |-> "Fair", date |-> [day |-> Day0 - 1, hour |-> 0],
         type |-> "festival", historical_avg_surge_pct |-> 400]

HelperPool  == EventPool \cup {Fair}
HelperLists == UNION { [1..n -> HelperPool] : n \in 0..MaxHelperEvents }
HelperDates == (Day0 - 3)..(Day0 + 1)

NearestEventCalls ==
    { [fn |-> "_nearest_event", current_date |-> d, events |-> evs,
       future_only |-> f, ret |-> None] :
         d \in HelperDates, evs \in HelperLists, f \in BOOLEAN }

\* _nearest_event(current_date, events, future_only) returns
NearestEventReturns ==
    /\ pc = "helper"
    /\ helper.fn = "_nearest_event"
    /\ helper' = [helper EXCEPT !.ret = NearestEvent(helper.current_date,
                                    helper.events, helper.future_only)]
    /\ pc' = "helper_done"
    /\ UNCHANGED <<today, eventsDb, modelState, callState, result,
                   alertState, agentState, otherState>>

MaxWindow == 8   \* longest window handed to _compute_baseline_from_window

WindowTotalsPool == {500, 2000}
BaselineDates    == Day0..(Day0 + 6)

ComputeBaselineCalls ==
    { [fn |-> "_compute_baseline_from_window", current_date |-> d,
       window |-> w, ret |-> 0] :
         d \in BaselineDates,
         w \in UNION { [1..n -> WindowTotalsPool] : n \in 0..MaxWindow } }

\* _compute_baseline_from_window(current_date, window) returns
ComputeBaselineReturns ==
    /\ pc = "helper"
    /\ helper.fn = "_compute_baseline_from_window"
    /\ helper' = [helper EXCEPT !.ret = ComputeBaselineFromWindow(
                                    helper.current_date, helper.window)]
    /\ pc' = "helper_done"
    /\ UNCHANGED <<today, eventsDb, modelState, callState, result,
                   alertState, agentState, otherState>>

FeatureDates == HelperDates \cup {Day0 - 40}
FeatureAqis  == {500, 2241}

BuildFeaturesCalls ==
    { [fn |-> "_build_features", d |-> d, aqi |-> aqi, events |-> evs,
       ret |-> <<>>] :
         d \in FeatureDates, aqi \in FeatureAqis, evs \in HelperLists }

\* _build_features(d, aqi, events) returns
BuildFeaturesReturns ==
    /\ pc = "helper"
    /\ helper.fn = "_build_features"
    /\ helper' = [helper EXCEPT !.ret = BuildFeatures(helper.d, helper.aqi,
                                                      helper.events)]
    /\ pc' = "helper_done"
    /\ UNCHANGED <<today, eventsDb, modelState, callState, result,
                   alertState, agentState, otherState>>

AqiDates == {Day0 - 8, Day0 - 5, Day0 - 3, Day0 - 1, Day0}
AqiDraws == {-4, 0, 4}

SimulateAqiCalls ==
    { [fn |-> "_simulate_aqi", current_date |-> d, events |-> evs,
       draw |-> z, ret |-> 0] :
         d \in AqiDates, evs \in HelperLists, z \in AqiDraws }

\* _simulate_aqi(current_date, events) returns
SimulateAqiReturns ==
    /\ pc = "helper"
    /\ helper.fn = "_simulate_aqi"
    /\ helper' = [helper EXCEPT !.ret = SimulateAqi(helper.current_date,
                                             helper.events, helper.draw)]
    /\ pc' = "helper_done"
    /\ UNCHANGED <<today, eventsDb, modelState, callState, result,
                   alertState, agentState, otherState>>

MaxDays == 3   \* longest history asked of _generate_synthetic_history

GenerateSyntheticHistoryCalls ==
    { [fn |-> "_generate_synthetic_history", start_date |-> Day0 - n,
       days |-> n, events |-> evs, seed |-> seed, ret |-> <<>>] :
         n \in 0..MaxDays, evs \in HelperLists, seed \in Seeds }

\* _generate_synthetic_history(start_date, days, events) returns
GenerateSyntheticHistoryReturns ==
    /\ pc = "helper"
    /\ helper.fn = "_generate_synthetic_history"
    /\ helper' = [helper EXCEPT !.ret = GenerateSyntheticHistory(
                      helper.start_date, helper.days, helper.events,
                      helper.seed)]
    /\ pc' = "helper_done"
    /\ UNCHANGED <<today, eventsDb, modelState, callState, result,
                   alertState, agentState, otherState>>

\* the rows train() fits the regressor on: the features and the target of
\* each point of the generated history
TrainingSet(hist, evs) ==
    [i \in 1..Len(hist) |->
        [x |-> BuildFeatures(hist[i].date, hist[i].aqi, evs),
         y |-> hist[i].surge_pct]]

\* train(events) up to the fit, over a history of a few days
TrainingSetCalls ==
    { [fn |-> "train", start_date |-> Day0 - n, days |-> n,
       events |-> evs, seed |-> seed, ret |-> <<>>] :
         n \in 1..MaxDays, evs \in HelperLists, seed \in Seeds }

\* train(events) has built X and y
TrainingSetReturns ==
    /\ pc = "helper"
    /\ helper.fn = "train"
    /\ helper' = [helper EXCEPT !.ret = TrainingSet(
                      GenerateSyntheticHistory(helper.start_date,
                          helper.days, helper.events, helper.seed),
                      helper.events)]
    /\ pc' = "helper_done"
    /\ UNCHANGED <<today, eventsDb, modelState, callState, result,
                   alertState, agentState, otherState>>

HelperCalls == NearestEventCalls \cup ComputeBaselineCalls
                   \cup BuildFeaturesCalls \cup SimulateAqiCalls
                   \cup GenerateSyntheticHistoryCalls
                   \cup TrainingSetCalls

InitHelper ==
    /\ today = Day0
    /\ eventsDb = <<>>
    /\ gb = 0
    /\ history = <<>>
    /\ trained = FALSE
    /\ trainCalls = 0
    /\ pc = "helper"
    /\ start_date = 0
    /\ horizon_days = 0
    /\ events = <<>>
    /\ current_date = 0
    /\ out = <<>>
    /\ baseline_window = <<>>
    /\ prediction = NoPrediction
    /\ result = <<>>
    /\ fp = NoPoint
    /\ alerts = <<>>
    /\ historyBy = 0
    /\ forecasts = <<>>
    /\ fc_points = <<>>
    /\ generated = 0
    /\ max_surge = 0
    /\ summary = NoSummary
    /\ runs = 0
    /\ train_pc = "idle"
    /\ train_id = 0
    /\ helper \in HelperCalls

NextHelper ==
    \/ NearestEventReturns
    \/ ComputeBaselineReturns
    \/ BuildFeaturesReturns
    \/ SimulateAqiReturns
    \/ GenerateSyntheticHistoryReturns
    \/ TrainingSetReturns

SpecHelper == InitHelper /\ [][NextHelper]_vars

----------------------------------------------------------------------------
(* Properties of forecast_horizon and of the synthetic history *)

\* P holds of every point forecast_horizon has produced or returned
AllPipelinePoints(P(_)) ==
    /\ \A i \in 1..Len(out) : P(out[i])
    /\ \A i \in 1..Len(result) : P(result[i])

\* P holds of every point of the cached synthetic history
AllHistoryPoints(P(_)) == \A i \in 1..Len(history) : P(history[i])

SomeHistoryPoint(P(_)) == \E i \in 1..Len(history) : P(history[i])

\* C1: forecast_horizon returns exactly horizon_days points, and their dates
\* are start_date, start_date + 1, ... in that order.
C1_ExactlyNConsecutiveDates ==
    pc = "returned" =>
        /\ Len(result) = horizon_days
        /\ \A i \in 1..Len(result) : result[i].date = start_date + i - 1

C1_Witness ==
    /\ pc = "returned"
    /\ Len(result) >= 2
    /\ result[2].date = start_date + 1

\* C2: a forecast_horizon call with horizon_days = 0 leaves the regressor,
\* the trained flag and the cached history as they were, also on an
\* untrained model.
C2_ZeroHorizonNoSideEffects ==
    [][ (pc = "idle" /\ pc' = "forecast" /\ horizon_days' = 0)
            => UNCHANGED <<gb, trained, history>> ]_vars

\* C3: a forecast_horizon(start_date, ...) call on a model without a trained
\* regressor leaves a trained model whose history has 365 days and ends the
\* day before start_date.
C3_LazyHistoryEndsBeforeStart ==
    [][ (pc = "idle" /\ (~trained \/ gb = 0) /\ pc' = "forecast")
            => /\ trained' /\ gb' # 0
               /\ Len(history') = HistoryDays
               /\ history'[HistoryDays].date = start_date' - 1 ]_vars

\* C4: inside forecast_horizon every entry of the rolling window is the total
\* of a date strictly before the day being estimated.
C4_WindowStrictlyCausal ==
    pc = "forecast" =>
        \A i \in 1..Len(baseline_window) :
            baseline_window[i].date < current_date

\* C5 as stated: the rolling window never holds more than 30 entries.
C5_WindowAtMostSeedDays == Len(baseline_window) <= SeedDays

\* C5 as amended: the window starts as the totals of the last 30 history
\* points and grows by one entry per forecast day; nothing is evicted, so
\* after k days it holds 30 + k entries.
C5_WindowGrowsByOnePerDay ==
    pc \in {"forecast", "returned"} =>
        /\ Len(baseline_window) = SeedDays + Len(out)
        /\ SubSeq(baseline_window, 1, SeedDays) = SeedWindow(history)
        /\ \A i \in 1..Len(out) :
               baseline_window[SeedDays + i] =
                   [date |-> out[i].date, total |-> out[i].total_admissions]

C5_Witness ==
    /\ pc = "forecast"
    /\ Len(out) >= 2
    /\ Len(baseline_window) = SeedDays + 2

\* C6: every point of forecast_horizon has surge_pct in [-20, 120], whatever
\* predict() returned.
SurgeInPipelineRange(p) == p.surge_pct >= -200 /\ p.surge_pct <= 1200

C6_PipelineSurgeClamped == AllPipelinePoints(SurgeInPipelineRange)

C6_Witness ==
    /\ pc = "forecast"
    /\ Len(out) >= 2
    /\ prediction.value > 1200
    /\ out[Len(out)].surge_pct = 1200
    /\ out[1].surge_pct = -200

\* a point's total is baseline * (1 + surge_pct / 100), to the last tenth
PointConsistent(p) ==
    LET exact == p.baseline_admissions * (1000 + p.surge_pct)
    IN  /\ 1000 * p.total_admissions <= exact
        /\ exact < 1000 * (p.total_admissions + 1)

\* C7: every point of forecast_horizon and of the synthetic history has
\* total_admissions = baseline_admissions * (1 + surge_pct / 100) for the
\* surge_pct stored in the point.
C7_TotalMatchesBaselineAndSurge ==
    AllPipelinePoints(PointConsistent) /\ AllHistoryPoints(PointConsistent)

C7_Witness ==
    /\ pc = "forecast"
    /\ Len(out) >= 1
    /\ prediction.value # out[Len(out)].surge_pct
    /\ out[Len(out)].total_admissions > out[Len(out)].baseline_admissions
    /\ SomeHistoryPoint(LAMBDA h : h.surge_pct = 1200)
    /\ SomeHistoryPoint(LAMBDA h : h.surge_pct < 0)

\* C8: every aqi the core produces, in a point of forecast_horizon or in a
\* point of the synthetic history, lies in [50, 500].
AqiInRange(p) == p.aqi >= 500 /\ p.aqi <= 5000

C8_AllAqiInRange ==
    AllPipelinePoints(AqiInRange) /\ AllHistoryPoints(AqiInRange)

\* C9: every point of the synthetic history has surge_pct in [-10, 120].
SurgeInSyntheticRange(p) == p.surge_pct >= -100 /\ p.surge_pct <= 1200

C9_SyntheticSurgeClamped == AllHistoryPoints(SurgeInSyntheticRange)

C9_Witness ==
    /\ SomeHistoryPoint(LAMBDA h : h.surge_pct = 1200)
    /\ SomeHistoryPoint(LAMBDA h : h.surge_pct = -100)

\* C10: one call of the classifier emits at most one alert; its level is
\* critical exactly when surge_pct >= 60 or aqi >= 350, else warning exactly
\* when surge_pct >= 30 or aqi >= 200, else there is no alert; no alert has
\* level info.
C10_AlertLevels ==
    pc = "classified" =>
        LET critical == fp.surge_pct >= 600 \/ fp.aqi >= 3500
            warning  == ~critical /\ (fp.surge_pct >= 300 \/ fp.aqi >= 2000)
        IN  /\ Len(alerts) <= 1
            /\ critical <=> (Len(alerts) = 1 /\ alerts[1].level = "critical")
            /\ warning  <=> (Len(alerts) = 1 /\ alerts[1].level = "warning")
            /\ (~critical /\ ~warning) <=> alerts = <<>>
            /\ \A i \in 1..Len(alerts) : alerts[i].level # "info"

C10_Witness ==
    /\ pc = "classified"
    /\ fp.surge_pct = 600
    /\ fp.aqi = 500
    /\ Len(alerts) = 1
    /\ alerts[1].level = "critical"

----------------------------------------------------------------------------
(* Properties of the agent *)

\* C11: alerts are not deduplicated.  Every step leaves the documents of the
\* sink where they are, so the count only grows, and every classification of
\* a point that meets a threshold adds one document, whatever the sink
\* already holds for that date: k runs leave k alerts.
C11_AlertsNeverDeduplicated ==
    [][ /\ Len(alerts') >= Len(alerts)
        /\ SubSeq(alerts', 1, Len(alerts)) = alerts
        /\ (pc = "agent_alert" /\ AlertLevel(fp.surge_pct, fp.aqi) # "none")
              => Len(alerts') = Len(alerts) + 1 ]_vars

\* two runs have left two alerts with the same message
C11_Witness ==
    \E i, j \in 1..Len(alerts) : i < j /\ alerts[i].message = alerts[j].message

\* C12: the forecast store holds at most one document per date, and the
\* document of every point the running agent has upserted carries the values
\* of that point: the last write wins.
C12_OneDocumentPerDateLastWriteWins ==
    /\ \A i, j \in 1..Len(forecasts) :
           forecasts[i].date = forecasts[j].date => i = j
    /\ pc \in {"agent", "agent_alert"} =>
           \A k \in 1..generated :
               \E i \in 1..Len(forecasts) :
                   forecasts[i] = ForecastDoc(fc_points[k])

\* a second run has replaced the only document of the store by other values
C12_Witness ==
    /\ pc = "agent_alert"
    /\ runs = 1
    /\ summary.generated_forecasts = 1
    /\ summary.max_surge_pct # fp.surge_pct
    /\ Len(fc_points) = 1
    /\ Len(forecasts) = 1

\* C19: an agent run with horizon 0 makes no classification call, inserts no
\* alert, upserts no forecast, and reports generated_forecasts = 0 and
\* max_surge_pct = 0.0.
C19_ZeroHorizonRun ==
    [][ ((pc # "idle" /\ horizon_days = 0) \/ (pc' # "idle" /\ horizon_days' = 0))
          => /\ alerts' = alerts
             /\ forecasts' = forecasts
             /\ pc' # "agent_alert"
             /\ (pc = "agent" /\ pc' = "idle")
                   => summary' = [horizon_days        |-> 0,
                                  generated_forecasts |-> 0,
                                  max_surge_pct       |-> 0] ]_vars

\* a run with horizon 0 has returned its summary
C19_Witness ==
    /\ runs >= 1
    /\ pc = "idle"
    /\ summary.horizon_days = 0

\* the agent is about to classify the only point of a run of horizon 1 that
\* starts on the day of the festival, the only event
FestivalScenario ==
    /\ pc = "agent_alert"
    /\ horizon_days = 1
    /\ events = <<Festival>>
    /\ Festival.historical_avg_surge_pct = 600
    /\ fp.date = AsDate(Festival.date)

\* C18 as stated: in the festival scenario the run has one point, its aqi is
\* at least 150 and it is classified as warning or critical, for every draw
\* and every predicted value.
C18_FestivalPointAlwaysAlerts ==
    [][ FestivalScenario
          => /\ Len(fc_points) = 1
             /\ fp.aqi >= 1500
             /\ Len(alerts') = Len(alerts) + 1
             /\ alerts'[Len(alerts')].level \in {"warning", "critical"} ]_vars

\* C18, amended: in the festival scenario the run has one point; its aqi is
\* at least 150 when the noise draw is no lower than -30; and it is
\* classified as warning or critical exactly when its aqi is at least 200 or
\* its surge at least 30, and raises no alert otherwise.
C18_FestivalPointAlertsOnThreshold ==
    [][ FestivalScenario
          => /\ Len(fc_points) = 1
             /\ prediction.draw >= -3 => fp.aqi >= 1500
             /\ IF fp.aqi >= 2000 \/ fp.surge_pct >= 300
                THEN /\ Len(alerts') = Len(alerts) + 1
                     /\ alerts'[Len(alerts')].level \in {"warning", "critical"}
                ELSE alerts' = alerts ]_vars

\* the festival point came out with an aqi between 150 and 200 and a surge
\* under 30, and the first run has raised no alert for it
C18_Witness ==
    /\ pc = "agent"
    /\ generated = 1
    /\ horizon_days = 1
    /\ events = <<Festival>>
    /\ fp.date = AsDate(Festival.date)
    /\ fp.aqi >= 1500
    /\ fp.aqi < 2000
    /\ fp.surge_pct < 300
    /\ runs = 0
    /\ alerts = <<>>

----------------------------------------------------------------------------
(* Properties of the alert message *)

\* positions of the events of the list within one day of the point
NearPositions(point, evs) ==
    { i \in 1..Len(evs) : Abs(AsDate(evs[i].date) - point.date) <= 1 }

\* C20: the message of an alert names the first event of the list within one
\* day of the point's date, in iteration order, whether or not a later event
\* is nearer; when no event is within one day it is the generic message with
\* the date only.
C20_MessageNamesFirstNearEvent ==
    (pc = "classified" /\ alerts # <<>>) =>
        LET message == alerts[Len(alerts)].message
            near    == NearPositions(fp, events)
        IN  IF near # {}
            THEN /\ message.event =
                        events[CHOOSE i \in near : \A j \in near : i <= j].name
                 /\ message.wording \in {"Critical surge risk near event",
                                         "Moderate surge risk around event"}
            ELSE /\ message.event = ""
                 /\ message.wording \in {"Critical surge risk detected on",
                                         "Moderate surge risk on"}

\* the message names the first event, one day away, and the second event of
\* the list is on the very day of the point
C20_Witness ==
    /\ pc = "classified"
    /\ alerts # <<>>
    /\ Len(events) >= 2
    /\ Abs(AsDate(events[1].date) - fp.date) = 1
    /\ AsDate(events[2].date) = fp.date
    /\ alerts[1].message.event = events[1].name
    /\ events[1].name # events[2].name

----------------------------------------------------------------------------
(* Properties of training *)

\* C16: the caller never meets a model that is not ready.  In every sequence
\* of calls from a fresh model, the loop of forecast_horizon is entered, and
\* predict is invoked, only after a training call has completed: the flag is
\* set and the regressor is the one a training call fitted.
C16_PredictOnlyAfterTraining ==
    (pc = "forecast" \/ prediction # NoPrediction) =>
        /\ trained
        /\ gb # 0
        /\ trainCalls >= 1
        /\ gb <= trainCalls

\* predict has been invoked
C16_Witness ==
    /\ pc = "forecast"
    /\ prediction # NoPrediction
    /\ Len(out) >= 1
    /\ gb = 1

----------------------------------------------------------------------------
(* Properties of the error paths *)

\* C14: a call of forecast_horizon with a negative horizon_days fails and
\* returns no result.
C14_NegativeHorizonFails ==
    ~(pc = "returned" /\ horizon_days < 0)

\* C15: a call of forecast_horizon whose event list has an event with an
\* unparseable date fails and returns no result, for every horizon and
\* whether or not the model is trained.
C15_UnparseableDateFails ==
    ~(pc = "returned" /\ horizon_days >= 0 /\ AnyUnparseable(events))

\* C13: a training call fully replaces the model state.  When a training
\* call completes, the cached history is one freshly generated history, of
\* HistoryDays points ending the day before the call, with nothing of the
\* history it replaces, and the regressor is the one that call fitted.
C13_TrainReplacesModelState ==
    [][ trainCalls' # trainCalls
          => /\ \E evs \in AgentEventLists, seed \in Seeds :
                    history' = GenerateSyntheticHistory(today - HistoryDays,
                                                        HistoryDays, evs, seed)
             /\ historyBy' = trainCalls'
             /\ gb' = trainCalls'
             /\ trained' ]_vars

\* the model was trained a second time, a day after Day0 at the earliest:
\* its history starts HistoryDays before that day
C13_Witness ==
    /\ trainCalls = 2
    /\ gb = 2
    /\ historyBy = 2
    /\ today > Day0
    /\ Len(history) = HistoryDays
    /\ history[1].date = today - HistoryDays

\* C17: train() publishes the history before the regressor and the flag.
\* The step of a training call that replaces the history leaves the
\* regressor and the flag as they are, and until that call has finished the
\* model holds the history of that call, or of a later one, with a regressor
\* that is not that call's.
C17_HistoryPublishedBeforeRegressor ==
    [][ /\ (train_pc = "idle" /\ train_pc' = "fitting")
              => /\ historyBy' = train_id'
                 /\ gb' = gb
                 /\ trained' = trained
        /\ train_pc' = "fitting"
              => /\ historyBy' >= train_id'
                 /\ gb' # train_id' ]_vars

\* a forecast whose window was seeded from the history of training call 2,
\* still in progress, has called predict on the regressor of call 1
C17_Witness ==
    /\ train_pc = "fitting"
    /\ train_id = 2
    /\ historyBy = 2
    /\ gb = 1
    /\ trained
    /\ pc = "forecast"
    /\ prediction # NoPrediction
    /\ Len(out) >= 1
    /\ SubSeq(baseline_window, 1, SeedDays) = SeedWindow(history)

----------------------------------------------------------------------------
(* Properties of the internal helpers *)

\* the helper with that name has returned
Returned(fn) == pc = "helper_done" /\ helper.fn = fn

\* C21: _nearest_event returns, among the candidate events (all of them, or
\* with future_only those of a non-negative delta), one of minimal absolute
\* delta, and of these the first of the list; it returns None only when
\* there is no candidate.
C21_NearestEventFirstOfTies ==
    Returned("_nearest_event") =>
        LET evs      == helper.events
            delta(i) == AsDate(evs[i].date) - helper.current_date
            cands    == { i \in 1..Len(evs) :
                            ~helper.future_only \/ delta(i) >= 0 }
            best     == { i \in cands :
                            \A j \in cands : Abs(delta(i)) <= Abs(delta(j)) }
        IN  IF cands = {} THEN helper.ret = None
            ELSE helper.ret = evs[CHOOSE i \in best : \A j \in best : i <= j]

\* two different events on the same future day: the first one is returned
C21_Witness ==
    /\ Returned("_nearest_event")
    /\ helper.future_only
    /\ Len(helper.events) = 2
    /\ helper.events[1] # helper.events[2]
    /\ AsDate(helper.events[1].date) = AsDate(helper.events[2].date)
    /\ AsDate(helper.events[1].date) > helper.current_date
    /\ helper.ret = helper.events[1]

\* C22: the baseline estimator returns 130 for an empty window; for any
\* other window it returns the mean of the last min(7, len) entries plus the
\* weekly term of the weekday, and 60 when that is less than 60.
C22_BaselineFromLastSeven ==
    Returned("_compute_baseline_from_window") =>
        LET window == helper.window
            n      == Min(RecentDays, Len(window))
            first  == Len(window) - n
            recent == [i \in 1..n |-> window[first + i]]
            weekly == (60 * SinWeek(Weekday(helper.current_date))) \div 1000
        IN  /\ window = <<>> => helper.ret = 1300
            /\ window # <<>> =>
                  /\ helper.ret >= 600
                  /\ helper.ret = Max(600, SumSeq(recent) \div n + weekly)

\* a window of more than seven entries whose oldest entry differs from the
\* others, with a result above the floor
C22_Witness ==
    /\ Returned("_compute_baseline_from_window")
    /\ Len(helper.window) > RecentDays
    /\ helper.window[1] # helper.window[2]
    /\ \A i \in 2..Len(helper.window) : helper.window[i] = helper.window[2]
    /\ helper.ret > 600

\* C23: the feature builder returns seven values: the weekday (0..6), the
\* month (1..12), the two flags, the days to the nearest future event, the
\* aqi it was given, and the historical surge of the day.  The flags and the
\* historical surge are those of the first event whose date is the given
\* date, and 0 when there is none, however near another event is; the days
\* to the nearest future event lie in 0..30 and are 30 when no event is on
\* or after the date.
C23_FeatureVector ==
    Returned("_build_features") =>
        LET x        == helper.ret
            evs      == helper.events
            delta(i) == AsDate(evs[i].date) - helper.d
            exact    == { i \in 1..Len(evs) : delta(i) = 0 }
            future   == { i \in 1..Len(evs) : delta(i) >= 0 }
            first    == CHOOSE i \in exact : \A j \in exact : i <= j
        IN  /\ Len(x) = 7
            /\ x[1] \in 0..6
            /\ x[2] \in 1..12
            /\ x[3] \in {0, 1}
            /\ x[4] \in {0, 1}
            /\ x[5] \in 0..30
            /\ x[6] = helper.aqi
            /\ IF exact = {}
               THEN x[3] = 0 /\ x[4] = 0 /\ x[7] = 0
               ELSE /\ x[3] = 1 <=> evs[first].type = "festival"
                    /\ x[4] = 1 <=> evs[first].type = "pollution"
                    /\ x[7] = evs[first].historical_avg_surge_pct
            /\ future = {} => x[5] = 30
            /\ future # {} =>
                  \E i \in future :
                      /\ \A j \in future : delta(i) <= delta(j)
                      /\ x[5] = Min(30, delta(i))

\* a festival the day after the given date and no event on the date itself:
\* no flag, no historical surge, one day to the next event
C23_Witness ==
    /\ Returned("_build_features")
    /\ \E i \in 1..Len(helper.events) :
           /\ AsDate(helper.events[i].date) = helper.d + 1
           /\ helper.events[i].type = "festival"
    /\ \A i \in 1..Len(helper.events) :
           AsDate(helper.events[i].date) # helper.d
    /\ helper.ret[3] = 0
    /\ helper.ret[7] = 0
    /\ helper.ret[5] = 1

\* C24: the bump of the AQI simulator is that of the single nearest event,
\* the first of the list among the events of minimal absolute delta: +90 for
\* a festival and +70 for a pollution event within 2 days, +40 and +30
\* within 5 days, and 0 for any other type, any larger delta and an empty
\* list.  No other event of the list adds anything.
C24_BumpOfNearestEventOnly ==
    Returned("_simulate_aqi") =>
        LET evs      == helper.events
            d        == helper.current_date
            delta(i) == Abs(AsDate(evs[i].date) - d)
            best     == { i \in 1..Len(evs) :
                            \A j \in 1..Len(evs) : delta(i) <= delta(j) }
            n        == CHOOSE i \in best : \A j \in best : i <= j
            bump     == IF evs = <<>> THEN 0
                        ELSE IF delta(n) <= 2
                        THEN (IF evs[n].type = "festival" THEN 900
                              ELSE IF evs[n].type = "pollution" THEN 700
                              ELSE 0)
                        ELSE IF delta(n) <= 5
                        THEN (IF evs[n].type = "festival" THEN 400
                              ELSE IF evs[n].type = "pollution" THEN 300
                              ELSE 0)
                        ELSE 0
            base     == 1200 + (250 * SinYear(DayOfYear(d))) \div 1000
        IN  helper.ret = Max(500, Min(5000, base + 100 * helper.draw + bump))

\* the nearest event is of another type and a festival is within 5 days:
\* the aqi is the base and the noise, without any bump
C24_Witness ==
    /\ Returned("_simulate_aqi")
    /\ Len(helper.events) = 2
    /\ helper.events[1].type = "festival"
    /\ Abs(AsDate(helper.events[1].date) - helper.current_date) = 3
    /\ helper.events[2].type = "epidemic"
    /\ Abs(AsDate(helper.events[2].date) - helper.current_date) = 1
    /\ helper.draw = 0
    /\ helper.ret = 1200 + (250 * SinYear(DayOfYear(helper.current_date)))
                              \div 1000

\* the event the by-date map of the generator holds for day d: the last
\* event of the list with that date, 0 when there is none
LastOnDay(evs, d) ==
    LET on == { i \in 1..Len(evs) : AsDate(evs[i].date) = d }
    IN  IF on = {} THEN 0 ELSE CHOOSE i \in on : \A j \in on : j <= i

\* C25: in the synthetic history the surge of a day is, before the clamp to
\* [-10, 120], the sum of the event's contribution, the tier of the day's
\* aqi (+35 from 300, +18 from 200, +8 from 150) and the noise.  The tier is
\* added whether or not the day has an event; the event's contribution is
\* that of the event on that very date, and 0 on a day without one.
C25_TierStacksWithEvent ==
    Returned("_generate_synthetic_history") =>
        \A k \in 1..Len(helper.ret) :
            LET point == helper.ret[k]
                evs   == helper.events
                n     == LastOnDay(evs, point.date)
                noise == 50 * Z(helper.seed, k - 1, 3)
                event == IF n = 0 THEN 0
                         ELSE IF evs[n].type = "festival"
                         THEN evs[n].historical_avg_surge_pct + noise
                         ELSE IF evs[n].type = "pollution"
                         THEN (evs[n].historical_avg_surge_pct * 8) \div 10
                              + noise
                         ELSE evs[n].historical_avg_surge_pct \div 2 + noise
                tier  == IF point.aqi >= 3000 THEN 350
                         ELSE IF point.aqi >= 2000 THEN 180
                         ELSE IF point.aqi >= 1500 THEN 80 ELSE 0
            IN  point.surge_pct =
                    Max(-100, Min(1200, event + tier
                                        + 30 * Z(helper.seed, k - 1, 4)))

\* a day with a festival and an aqi of 200 or more whose surge, below the
\* upper limit, holds the festival's contribution and the tier of +18
C25_Witness ==
    /\ Returned("_generate_synthetic_history")
    /\ \E k \in 1..Len(helper.ret) :
           LET point == helper.ret[k]
               n     == LastOnDay(helper.events, point.date)
           IN  /\ n # 0
               /\ helper.events[n].type = "festival"
               /\ point.aqi >= 2000
               /\ point.aqi < 3000
               /\ point.surge_pct < 1200
               /\ point.surge_pct =
                      helper.events[n].historical_avg_surge_pct
                      + 50 * Z(helper.seed, k - 1, 3) + 180
                      + 30 * Z(helper.seed, k - 1, 4)

----------------------------------------------------------------------------
(* Properties of a trained model *)

\* C26: on a trained model no step of forecast_horizon changes the
\* regressor, the cached history or the flag, whatever the start date, the
\* horizon and the events; the cached history has HistoryDays points, so the
\* regeneration for a short history is never taken.
C26_ForecastLeavesTrainedModel ==
    [][ (trained /\ gb # 0 /\ (pc = "forecast" \/ pc' = "forecast"))
          => /\ gb' = gb
             /\ history' = history
             /\ trained' = trained
             /\ Len(history) = HistoryDays
             /\ Len(history) >= SeedDays ]_vars

\* a model trained without events has forecast a day with the festival in
\* the event list
C26_Witness ==
    /\ pc = "returned"
    /\ Len(result) >= 1
    /\ events = <<Festival>>
    /\ trained
    /\ gb = 1
    /\ history = GenerateSyntheticHistory(today - HistoryDays, HistoryDays,
                                          <<>>, 0)

\* C27: forecast runs do not feed each other.  The window a run starts from
\* holds the totals of the last SeedDays points of the cached history and
\* nothing else; the passes of the loop append to the window and leave the
\* cached history alone, which changes only in a training call: two runs on
\* the same trained model start from the same window.
C27_RunsDoNotFeedEachOther ==
    [][ /\ (pc = "idle" /\ pc' = "forecast")
              => /\ Len(baseline_window') = SeedDays
                 /\ \A i \in 1..SeedDays :
                        LET point == history'[Len(history') - SeedDays + i]
                        IN  /\ baseline_window'[i].total
                                   = point.total_admissions
                            /\ baseline_window'[i].date = point.date
        /\ trainCalls' = trainCalls => history' = history ]_vars

\* a second run on the same trained model is at the head of its loop, after
\* a first run whose points are in the store
C27_Witness ==
    /\ pc = "forecast"
    /\ Len(out) = 0
    /\ horizon_days >= 1
    /\ runs = 1
    /\ trainCalls = 1
    /\ forecasts # <<>>
    /\ Len(baseline_window) = SeedDays
    /\ baseline_window[SeedDays].date = today - 1

\* C28: a training call that fails leaves the model as it was: the cached
\* history, the regressor and the trained flag keep the values they had
\* before the call, also when the call fails on an event of the history
\* range that has no type.
C28_FailedTrainLeavesModel ==
    [][ (pc = "idle" /\ pc' = "raised")
          => /\ history' = history
             /\ gb' = gb
             /\ trained' = trained ]_vars

\* C29: within one training call the event that shapes the synthetic target
\* of a day and the event encoded in the feature vector of that day are the
\* same event, also when the list has two or more events on that date: the
\* flags and the historical surge of the row are those of the event the
\* generator's by-date map holds for the day.
C29_TargetAndFeaturesSameEvent ==
    Returned("train") =>
        \A k \in 1..Len(helper.ret) :
            LET evs == helper.events
                n   == LastOnDay(evs, helper.start_date + k - 1)
                x   == helper.ret[k].x
            IN  IF n = 0
                THEN x[3] = 0 /\ x[4] = 0 /\ x[7] = 0
                ELSE /\ x[3] = 1 <=> evs[n].type = "festival"
                     /\ x[4] = 1 <=> evs[n].type = "pollution"
                     /\ x[7] = evs[n].historical_avg_surge_pct

----------------------------------------------------------------------------
(* Properties of the order of an agent run *)

\* the largest surge_pct of a list of points, 0 for the empty list
LargestSurge(points) ==
    IF points = <<>> THEN 0
    ELSE CHOOSE m \in { points[k].surge_pct : k \in 1..Len(points) } :
             \A k \in 1..Len(points) : points[k].surge_pct <= m

\* C30: an agent run forecasts the whole horizon before it writes anything.
\* No step taken before forecast_horizon has returned, and none after it has
\* failed, touches the forecasts or the alerts, and a failed call ends the
\* run.  After a successful call the loop takes the returned points in date
\* order; the pass for a point upserts the point, then classifies that same
\* point; the summary reports as generated_forecasts the number of points
\* returned and as max_surge_pct the largest surge_pct among them.
C30_ForecastBeforeWrites ==
    [][ /\ pc \in {"idle", "forecast", "returned", "raised"}
              => forecasts' = forecasts /\ alerts' = alerts
        /\ pc = "raised" => pc' = "idle"
        /\ (pc = "returned" /\ pc' = "agent")
              => /\ fc_points' = result
                 /\ Len(result) = horizon_days
                 /\ \A k \in 1..Len(result) : result[k].date = today + k - 1
        /\ (pc = "agent" /\ pc' = "agent_alert")
              => /\ generated' = generated + 1
                 /\ fp' = fc_points[generated']
                 /\ \E i \in 1..Len(forecasts') :
                        forecasts'[i] = ForecastDoc(fp')
                 /\ alerts' = alerts
        /\ pc = "agent_alert"
              => /\ pc' = "agent"
                 /\ fp = fc_points[generated]
                 /\ forecasts' = forecasts
                 /\ \E i \in 1..Len(forecasts) : forecasts[i] = ForecastDoc(fp)
                 /\ \A i \in (Len(alerts) + 1)..Len(alerts') :
                        alerts'[i].message.date = fp.date
        /\ (pc = "agent" /\ pc' = "idle")
              => /\ summary'.generated_forecasts = Len(fc_points)
                 /\ summary'.max_surge_pct = LargestSurge(fc_points) ]_vars

\* after a run that has stored its point, a run of horizon 2 has failed on
\* its second day, with one point computed and nothing more in the store
C30_Witness ==
    /\ pc = "raised"
    /\ horizon_days = 2
    /\ Len(out) = 1
    /\ runs = 1
    /\ Len(forecasts) = 1
    /\ eventsDb = <<UntypedAhead>>

====
